---- MODULE Spec2Model ----
(***************************************************************************)
(* Contact-form backend (src/server.js, the MongoDB variant, lines         *)
(* 150-536): two rate limiters, the input validator, the Contact           *)
(* collection, the submission workflow (save, owner mail, submitter mail)  *)
(* and the admin list / update-status / delete routes.                     *)
(*                                                                         *)
(* Node runs one handler at a time and switches handlers only at an await, *)
(* so every action below is the code between two awaits of one handler.    *)
(***************************************************************************)
EXTENDS Integers, Sequences, FiniteSets, TLC

\* ------------------------------------------------------------------ bounds
MaxRequests == 4      \* events (arrivals, elapsed windows), in Spec
MaxLimiterRequests == 8   \* events (arrivals, elapsed windows), in SpecLimiter
MaxRecords == 2       \* documents constructed, in Spec
MaxLimiterRecords == 1    \* documents constructed, in SpecLimiter
MaxInflight == 2      \* handlers suspended at an await at the same time

\* ------------------------------------------------------- program constants
GeneralMax == 100     \* limiter.max
ContactMax == 5       \* contactLimiter.max
NameMax == 100        \* validateContactInput / contactSchema.name.maxlength
MessageMax == 1000    \* validateContactInput / contactSchema.message.maxlength
DefaultPage == 1      \* page = 1 in the query destructuring
DefaultLimit == 10    \* limit = 10 in the query destructuring

Addr == {"ip1", "ip2"}
Client == {"ip1"}

\* ------------------------------------------------------------------- text
\* A string is a sequence of runs [ch, n]: n copies of the character ch.
\* Characters: "a" a lower-case letter, "A" an upper-case letter, " " white
\* space, "." "-" "@" themselves.
Run(c, k) == <<[ch |-> c, n |-> k]>>

RECURSIVE TextLen(_)
TextLen(t) == IF t = <<>> THEN 0 ELSE Head(t).n + TextLen(Tail(t))

RECURSIVE Expand(_)
Expand(t) ==
  IF t = <<>> THEN <<>>
  ELSE [i \in 1..Head(t).n |-> Head(t).ch] \o Expand(Tail(t))

RECURSIVE TrimLeft(_)
TrimLeft(t) ==
  IF t = <<>> THEN <<>>
  ELSE IF Head(t).ch = " " \/ Head(t).n = 0 THEN TrimLeft(Tail(t))
  ELSE t

RECURSIVE TrimRight(_)
TrimRight(t) ==
  IF t = <<>> THEN <<>>
  ELSE IF t[Len(t)].ch = " " \/ t[Len(t)].n = 0
       THEN TrimRight(SubSeq(t, 1, Len(t) - 1))
  ELSE t

\* String.prototype.trim, the schema's trim: true
Trim(t) == TrimRight(TrimLeft(t))

\* String.prototype.toLowerCase, the schema's lowercase: true
LowerCase(t) ==
  [i \in 1..Len(t) |-> [ch |-> IF t[i].ch = "A" THEN "a" ELSE t[i].ch, n |-> t[i].n]]

\* An optional value: <<>> is undefined, <<v>> is the value v.
None == <<>>
Some(v) == <<v>>
Truthy(o) == o # None /\ TextLen(o[1]) > 0

IsWord(c) == c \in {"a", "A"}
IsSep(c) == c \in {".", "-"}

\* \w+([.-]?\w+)*  on a sequence of characters
WordChain(s) ==
  /\ Len(s) > 0
  /\ IsWord(s[1]) /\ IsWord(s[Len(s)])
  /\ \A i \in 1..Len(s) : IsWord(s[i]) \/ IsSep(s[i])
  /\ \A i \in 1..(Len(s) - 1) : ~(IsSep(s[i]) /\ IsSep(s[i + 1]))

\* /^\w+([.-]?\w+)*@\w+([.-]?\w+)*(\.\w{2,3})+$/ .test(s): the domain is a
\* word chain followed by one or more groups "." \w{2,3}; every group but the
\* last is itself a link of the chain, so the domain is a word chain, a dot,
\* and two or three word characters up to the end.
EmailRegexTest(s) ==
  \E at \in 1..Len(s) :
    /\ s[at] = "@"
    /\ WordChain(SubSeq(s, 1, at - 1))
    /\ \E dot \in (at + 1)..Len(s) :
         /\ s[dot] = "."
         /\ WordChain(SubSeq(s, at + 1, dot - 1))
         /\ Len(s) - dot \in 2..3
         /\ \A i \in (dot + 1)..Len(s) : IsWord(s[i])

\* ------------------------------------------------------------- validator
\* Variant: the validator without the check of the message's length.
validateContactInputNoLength(body) ==
  IF ~Truthy(body.name) \/ ~Truthy(body.email) \/ ~Truthy(body.message)
    THEN "All fields are required"
  ELSE IF TextLen(body.name[1]) > NameMax
    THEN "Name cannot exceed 100 characters"
  ELSE IF ~EmailRegexTest(Expand(body.email[1]))
    THEN "Please provide a valid email address"
  ELSE "next"

\* validateContactInput: the message of the 400 response, or "next".
validateContactInput(body) ==
  IF ~Truthy(body.name) \/ ~Truthy(body.email) \/ ~Truthy(body.message)
    THEN "All fields are required"
  ELSE IF TextLen(body.name[1]) > NameMax
    THEN "Name cannot exceed 100 characters"
  ELSE IF TextLen(body.message[1]) > MessageMax
    THEN "Message cannot exceed 1000 characters"
  ELSE IF ~EmailRegexTest(Expand(body.email[1]))
    THEN "Please provide a valid email address"
  ELSE "next"

\* ---------------------------------------------------------------- schema
Statuses == {"unread", "read", "replied"}
\* Variant: the schema's default is another member of the enum.
DefaultStatusRead == "read"
DefaultStatus == "unread"

\* new Contact({...}): setters (trim, lowercase) and defaults are applied
\* when the document is constructed; _id and createdAt are given then too.
NewContact(body, ip, ua, id, t) ==
  [id |-> id,
   name |-> Trim(body.name[1]),
   email |-> LowerCase(Trim(body.email[1])),
   message |-> Trim(body.message[1]),
   ipAddress |-> ip,
   userAgent |-> ua,
   createdAt |-> t,
   status |-> DefaultStatus]

\* The schema's validators, run by save(): the messages of the
\* ValidationError, empty when the document is valid.
SchemaErrors(doc) ==
  (IF TextLen(doc.name) = 0 THEN {"Name is required"} ELSE {})
  \cup (IF TextLen(doc.name) > NameMax
          THEN {"Name cannot exceed 100 characters"} ELSE {})
  \cup (IF TextLen(doc.email) = 0 THEN {"Email is required"}
        ELSE IF ~EmailRegexTest(Expand(doc.email))
          THEN {"Please provide a valid email"} ELSE {})
  \cup (IF TextLen(doc.message) = 0 THEN {"Message is required"} ELSE {})
  \cup (IF TextLen(doc.message) > MessageMax
          THEN {"Message cannot exceed 1000 characters"} ELSE {})
  \cup (IF doc.status \notin Statuses THEN {"invalid enum value"} ELSE {})

\* ----------------------------------------------------------------- state
VARIABLES
  generalHits,   \* limiter's store: address -> requests counted this window
  contactHits,   \* contactLimiter's store: address -> requests counted
  contacts,      \* the Contact collection: a set of documents
  nextId,        \* the next ObjectId (ObjectIds are never handed out twice)
  now,           \* the last value Date.now returned
  inflight,      \* handlers suspended at an await
  budget,        \* events and documents the run may still see (its bound)
  deleted,       \* history: ids findByIdAndDelete has removed
  window,        \* history: address -> POSTs of the current contact window
                 \*   (posts: arrived, admitted: let through by limiter,
                 \*    validated: handed to validateContactInput)
  ev             \* the step just taken and the response it sent (code 0: none)

vars == <<generalHits, contactHits, contacts, nextId, now, inflight, budget,
          deleted, window, ev>>

\* ---------------------------------------------------------------- inputs
LongestName == Run("a", NameMax)
GoodEmail ==
  Run("A", 1) \o Run("a", 2) \o Run("@", 1) \o Run("a", 3) \o Run(".", 1)
    \o Run("a", 3)
BadEmail == Run("a", 3) \o Run("@", 1) \o Run("a", 3)
Hi == Run("A", 1) \o Run("a", 1)
Body(n, e, m) == [name |-> n, email |-> e, message |-> m]
GoodBody == Body(Some(LongestName), Some(GoodEmail), Some(Hi))

\* The good body and the bodies that differ from it in one field, and one
\* that is wrong in every field.
Bodies ==
  {GoodBody}
  \cup {[GoodBody EXCEPT !.name = n] :
          n \in {None, Some(<<>>), Some(Run(" ", 2)), Some(Run("a", NameMax + 1))}}
  \cup {[GoodBody EXCEPT !.email = e] : e \in {None, Some(BadEmail)}}
  \cup {[GoodBody EXCEPT !.message = m] :
          m \in {None, Some(Run(" ", 1)), Some(Run("a", MessageMax + 1))}}
  \cup {Body(Some(Run("a", NameMax + 1)), Some(BadEmail),
             Some(Run("a", MessageMax + 1)))}
\* A payload the validator accepts and one it rejects.
LimiterBodies == {GoodBody, [GoodBody EXCEPT !.email = Some(BadEmail)]}
UserAgents == {None}

BadId == 0                      \* an :id that is no ObjectId
Ids == 1..MaxRecords
IdParams == Ids \cup {BadId}
StatusParams == Statuses \cup {"bogus"}
Pages == {None, Some(2)}
Limits == {None, Some(1)}
StatusQueries == {None, Some("unread")}

\* ----------------------------------------------------------- rate limiters
\* express-rate-limit: the request is counted, then refused once the count
\* of the window exceeds max.
\* Variant: the request is refused once the count reaches max.
GeneralAdmitsStrict(a) == generalHits[a] + 1 < GeneralMax
GeneralAdmits(a) == generalHits[a] + 1 <= GeneralMax
\* Variant: max + 1 requests are let through.
ContactAdmitsOneMore(a) == contactHits[a] + 1 <= ContactMax + 1
ContactAdmits(a) == contactHits[a] + 1 <= ContactMax

Ev(act, code, req) == [act |-> act, code |-> code, req |-> req]
NoReq == [kind |-> "none"]

\* An event of the environment: a request arrives, a window elapses.
Event == budget.events > 0
Spend(docs) ==
  budget' = [events |-> budget.events - 1, docs |-> budget.docs - docs]

\* A request of address a reaches app.use("/api/", limiter) and is counted.
ArriveWith(a, docs) ==
  /\ Event /\ Spend(docs)
  /\ generalHits' = [generalHits EXCEPT ![a] = @ + 1]

Arrive(a) == ArriveWith(a, 0)

NoPosts == [posts |-> 0, admitted |-> 0, validated |-> 0]

Start(n, d) ==
  /\ generalHits = [a \in Addr |-> 0]
  /\ contactHits = [a \in Addr |-> 0]
  /\ contacts = {}
  /\ nextId = 1
  /\ now = 0
  /\ inflight = {}
  /\ budget = [events |-> n, docs |-> d]
  /\ deleted = {}
  /\ window = [a \in Addr |-> NoPosts]
  /\ ev = Ev("init", 0, NoReq)

\* History: a POST /api/contact of address a arrived; g = 1 when limiter let
\* it through, v = 1 when it was handed to validateContactInput.
Posted(a, g, v) ==
  window' = [window EXCEPT ![a] = [posts |-> @.posts + 1,
                                   admitted |-> @.admitted + g,
                                   validated |-> @.validated + v]]

\* app.use("/api/", limiter): any route under /api/, over the ceiling.
Routes == {"health", "contact", "contacts", "patch", "delete"}
GeneralReject(a, route) ==
  /\ Arrive(a)
  /\ ~GeneralAdmits(a)
  /\ ev' = Ev(route, 429, NoReq)
  /\ IF route = "contact" THEN Posted(a, 0, 0) ELSE UNCHANGED window
  /\ UNCHANGED <<contactHits, contacts, nextId, now, inflight, deleted>>

\* The memory store forgets an address's count when its window has elapsed.
GeneralWindowReset(a) ==
  /\ Event /\ Spend(0)
  /\ generalHits[a] > 0
  /\ generalHits' = [generalHits EXCEPT ![a] = 0]
  /\ ev' = Ev("generalReset", 0, NoReq)
  /\ UNCHANGED <<contactHits, contacts, nextId, now, inflight, deleted, window>>

ContactWindowReset(a) ==
  /\ Event /\ Spend(0)
  /\ contactHits[a] > 0
  /\ contactHits' = [contactHits EXCEPT ![a] = 0]
  /\ window' = [window EXCEPT ![a] = NoPosts]
  /\ ev' = Ev("contactReset", 0, NoReq)
  /\ UNCHANGED <<generalHits, contacts, nextId, now, inflight, deleted>>

\* GET /api/health
Health(a) ==
  /\ Arrive(a)
  /\ GeneralAdmits(a)
  /\ ev' = Ev("health", 200, NoReq)
  /\ UNCHANGED <<contactHits, contacts, nextId, now, inflight, deleted, window>>

\* A monitor's probes: GeneralMax - 2 health requests of one address, at the
\* start of its window, handled one after the other: each a Health step.
HealthBurst(a) ==
  /\ Event /\ Spend(0)
  /\ generalHits[a] = 0
  /\ generalHits' = [generalHits EXCEPT ![a] = GeneralMax - 2]
  /\ ev' = Ev("health", 200, NoReq)
  /\ UNCHANGED <<contactHits, contacts, nextId, now, inflight, deleted, window>>

\* ------------------------------------------------- POST /api/contact
ContactHit(a) == contactHits' = [contactHits EXCEPT ![a] = @ + 1]

\* contactLimiter refuses the request.
ContactReject(a) ==
  /\ Arrive(a)
  /\ GeneralAdmits(a)
  /\ ContactHit(a)
  /\ ~ContactAdmits(a)
  /\ ev' = Ev("contact", 429, NoReq)
  /\ Posted(a, 1, 0)
  /\ UNCHANGED <<contacts, nextId, now, inflight, deleted>>

Post(body) == [kind |-> "post", body |-> body]

\* validateContactInput answers 400.
ValidatorReject(a, body) ==
  /\ Arrive(a)
  /\ GeneralAdmits(a)
  /\ ContactHit(a)
  /\ ContactAdmits(a)
  /\ validateContactInput(body) # "next"
  /\ ev' = Ev("contact", 400, Post(body))
  /\ Posted(a, 1, 1)
  /\ UNCHANGED <<contacts, nextId, now, inflight, deleted>>

UserAgentOf(ua) == IF ua = None THEN "Unknown" ELSE ua[1]

\* The handler up to `await contact.save()`: the document is constructed.
SubmitStart(a, body, ua) ==
  /\ budget.docs > 0
  /\ ArriveWith(a, 1)
  /\ GeneralAdmits(a)
  /\ ContactHit(a)
  /\ ContactAdmits(a)
  /\ validateContactInput(body) = "next"
  /\ Cardinality(inflight) < MaxInflight
  /\ \E t \in {now, now + 1} :
       /\ now' = t
       /\ inflight' = inflight \cup
            {[kind |-> "submit", pc |-> "save",
              doc |-> NewContact(body, a, UserAgentOf(ua), nextId, t),
              ins |-> <<>>, sends |-> <<>>, fail |-> "none"]}
  /\ nextId' = nextId + 1
  /\ ev' = Ev("submitStart", 0, Post(body))
  /\ Posted(a, 1, 1)
  /\ UNCHANGED <<contacts, deleted>>

\* The workflow ends: its response, and what it did (ins: the status of the
\* record it inserted, sends: the mails it attempted, fail: what failed).
Finish(req, code, fail) ==
  /\ inflight' = inflight \ {req}
  /\ ev' = Ev("contact", code, [req EXCEPT !.pc = "done", !.fail = fail])

Continue(req, nxt, act) ==
  /\ inflight' = (inflight \ {req}) \cup {nxt}
  /\ ev' = Ev(act, 0, NoReq)

\* Variant: a save that fails after the document was written leaves it.
SaveKeepsPartial(req, dbOk) ==
  /\ req \in inflight
  /\ req.kind = "submit" /\ req.pc = "save"
  /\ IF SchemaErrors(req.doc) # {}
       THEN Finish(req, 400, "schema") /\ UNCHANGED contacts
     ELSE IF ~dbOk
       THEN Finish(req, 500, "save") /\ contacts' = contacts \cup {req.doc}
     ELSE /\ contacts' = contacts \cup {req.doc}
          /\ Continue(req, [req EXCEPT !.pc = "owner",
                                       !.ins = Append(@, req.doc.status)],
                      "save")
  /\ UNCHANGED <<generalHits, contactHits, nextId, now, budget, deleted, window>>

\* `await contact.save()` settles: the schema's validators reject the
\* document (ValidationError: 400), the storage layer fails (500), or the
\* document is inserted.
Save(req, dbOk) ==
  /\ req \in inflight
  /\ req.kind = "submit" /\ req.pc = "save"
  /\ IF SchemaErrors(req.doc) # {}
       THEN Finish(req, 400, "schema") /\ UNCHANGED contacts
     ELSE IF ~dbOk
       THEN Finish(req, 500, "save") /\ UNCHANGED contacts
     ELSE /\ contacts' = contacts \cup {req.doc}
          /\ Continue(req, [req EXCEPT !.pc = "owner",
                                       !.ins = Append(@, req.doc.status)],
                      "save")
  /\ UNCHANGED <<generalHits, contactHits, nextId, now, budget, deleted, window>>

\* The first `await transporter.sendMail(...)` settles.
OwnerMail(req, sent) ==
  /\ req \in inflight
  /\ req.kind = "submit" /\ req.pc = "owner"
  /\ LET nxt == [req EXCEPT !.sends = Append(@, "owner"), !.pc = "user"]
     IN IF sent THEN Continue(req, nxt, "ownerMail")
        ELSE /\ inflight' = inflight \ {req}
             /\ ev' = Ev("contact", 500, [nxt EXCEPT !.pc = "done",
                                                     !.fail = "owner"])
  /\ UNCHANGED <<generalHits, contactHits, contacts, nextId, now, budget,
                 deleted, window>>

\* Variant: the second send's failure is swallowed and 201 is answered.
UserMailIgnoresFailure(req, sent) ==
  /\ req \in inflight
  /\ req.kind = "submit" /\ req.pc = "user"
  /\ inflight' = inflight \ {req}
  /\ ev' = Ev("contact", 201,
              [req EXCEPT !.sends = Append(@, "user"), !.pc = "done",
                          !.fail = IF sent THEN "none" ELSE "user"])
  /\ UNCHANGED <<generalHits, contactHits, contacts, nextId, now, budget,
                 deleted, window>>

\* The second `await transporter.sendMail(...)` settles; the response.
UserMail(req, sent) ==
  /\ req \in inflight
  /\ req.kind = "submit" /\ req.pc = "user"
  /\ inflight' = inflight \ {req}
  /\ ev' = Ev("contact", IF sent THEN 201 ELSE 500,
              [req EXCEPT !.sends = Append(@, "user"), !.pc = "done",
                          !.fail = IF sent THEN "none" ELSE "user"])
  /\ UNCHANGED <<generalHits, contactHits, contacts, nextId, now, budget,
                 deleted, window>>

\* ------------------------------------------------- GET /api/contacts
Min(x, y) == IF x <= y THEN x ELSE y
PageOf(p) == IF p = None THEN DefaultPage ELSE p[1]
LimitOf(l) == IF l = None THEN DefaultLimit ELSE l[1]
StatusOf(q) == IF q = None THEN "all" ELSE q[1]

\* Contact.find(query): status !== "all" ? { status } : {}
Matching(status) ==
  IF status = "all" THEN contacts ELSE {c \in contacts : c.status = status}

Doc(id) == CHOOSE c \in contacts : c.id = id

\* .sort({ createdAt: -1 }): the ids of S, latest first; documents with the
\* same createdAt come in an order the store chooses.
SortedOrders(S) ==
  {s \in [1..Cardinality(S) -> {c.id : c \in S}] :
     /\ \A i, j \in 1..Cardinality(S) : i # j => s[i] # s[j]
     /\ \A i, j \in 1..Cardinality(S) :
          i < j => Doc(s[i]).createdAt >= Doc(s[j]).createdAt}

\* Variant: skip(page * limit), pages counted from 0.
PageSliceZeroIndexed(s, page, limit) ==
  SubSeq(s, page * limit + 1, Min(page * limit + limit, Len(s)))

\* .limit(limit * 1).skip((page - 1) * limit)
PageSlice(s, page, limit) ==
  SubSeq(s, (page - 1) * limit + 1, Min((page - 1) * limit + limit, Len(s)))

\* Math.ceil(total / limit)
PagesOf(total, limit) == (total + limit - 1) \div limit

\* The handler up to `await Contact.find(...)` settling.
ListFind(a, p, l, q, dbOk) ==
  /\ Arrive(a)
  /\ GeneralAdmits(a)
  /\ IF ~dbOk
       THEN /\ ev' = Ev("contacts", 500, NoReq)
            /\ UNCHANGED inflight
     ELSE /\ Cardinality(inflight) < MaxInflight
          /\ \E s \in SortedOrders(Matching(StatusOf(q))) :
               inflight' = inflight \cup
                 {[kind |-> "list", query |-> [page |-> p, limit |-> l, status |-> q],
                   page |-> PageOf(p), limit |-> LimitOf(l),
                   status |-> StatusOf(q),
                   data |-> PageSlice(s, PageOf(p), LimitOf(l)),
                   seen |-> Len(s)]}
          /\ ev' = Ev("find", 0, NoReq)
  /\ UNCHANGED <<contactHits, contacts, nextId, now, deleted, window>>

\* `await Contact.countDocuments(query)` settles; the response.
ListCount(req, dbOk) ==
  /\ req \in inflight
  /\ req.kind = "list"
  /\ inflight' = inflight \ {req}
  /\ IF ~dbOk
       THEN ev' = Ev("contacts", 500, NoReq)
     ELSE LET total == Cardinality(Matching(req.status))
          IN ev' = Ev("contacts", 200,
                      [kind |-> "list", query |-> req.query, page |-> req.page,
                       limit |-> req.limit, data |-> req.data,
                       seen |-> req.seen, total |-> total,
                       pages |-> PagesOf(total, req.limit)])
  /\ UNCHANGED <<generalHits, contactHits, contacts, nextId, now, budget,
                 deleted, window>>

\* ------------------------------------------------- PATCH /api/contacts/:id
Exists(id) == \E c \in contacts : c.id = id

\* Variant: the `if (!contact)` branch is missing.
PatchCodeNoLookup(id, status, dbOk) ==
  IF status \notin Statuses THEN 400
  ELSE IF id = BadId \/ ~dbOk THEN 500
  ELSE 200

\* The status check comes first; an :id that is no ObjectId makes
\* findByIdAndUpdate throw (CastError), as does a failing store: the catch.
PatchCode(id, status, dbOk) ==
  IF status \notin Statuses THEN 400
  ELSE IF id = BadId \/ ~dbOk THEN 500
  ELSE IF ~Exists(id) THEN 404
  ELSE 200

\* Variant: updateMany({}, { status }) in place of findByIdAndUpdate.
UpdatedAll(id, status) == {[c EXCEPT !.status = status] : c \in contacts}

\* Contact.findByIdAndUpdate(id, { status }, { new: true })
Updated(id, status) ==
  {IF c.id = id THEN [c EXCEPT !.status = status] ELSE c : c \in contacts}

Patch(a, id, status, dbOk) ==
  /\ Arrive(a)
  /\ GeneralAdmits(a)
  /\ contacts' = IF PatchCode(id, status, dbOk) = 200
                   THEN Updated(id, status) ELSE contacts
  /\ ev' = Ev("patch", PatchCode(id, status, dbOk),
              [kind |-> "patch", id |-> id, status |-> status, dbOk |-> dbOk])
  /\ UNCHANGED <<contactHits, nextId, now, inflight, deleted, window>>

\* ------------------------------------------------ DELETE /api/contacts/:id
DeleteCode(id, dbOk) ==
  IF id = BadId \/ ~dbOk THEN 500
  ELSE IF ~Exists(id) THEN 404
  ELSE 200

\* Variant: the document is found but not removed.
RemovedNothing(id) == contacts

\* Contact.findByIdAndDelete(id)
Removed(id) == {c \in contacts : c.id # id}

Delete(a, id, dbOk) ==
  /\ Arrive(a)
  /\ GeneralAdmits(a)
  /\ contacts' = IF DeleteCode(id, dbOk) = 200 THEN Removed(id) ELSE contacts
  /\ deleted' = IF DeleteCode(id, dbOk) = 200 THEN deleted \cup {id} ELSE deleted
  /\ ev' = Ev("delete", DeleteCode(id, dbOk),
              [kind |-> "delete", id |-> id, dbOk |-> dbOk])
  /\ UNCHANGED <<contactHits, nextId, now, inflight, window>>

\* ------------------------------------------------------------------ next
\* The workflow's steps after the request has arrived.
Settle ==
  \/ \E req \in inflight, dbOk \in BOOLEAN : Save(req, dbOk)
  \/ \E req \in inflight, sent \in BOOLEAN : OwnerMail(req, sent)
  \/ \E req \in inflight, sent \in BOOLEAN : UserMail(req, sent)

\* The whole service, its requests coming from one address.
Next ==
  \/ \E a \in Client, route \in Routes : GeneralReject(a, route)
  \/ \E a \in Client : Health(a)
  \/ \E a \in Client : HealthBurst(a)
  \/ \E a \in Client, body \in Bodies : ValidatorReject(a, body)
  \/ \E a \in Client, body \in Bodies, ua \in UserAgents : SubmitStart(a, body, ua)
  \/ Settle
  \/ \E a \in Client, p \in Pages, l \in Limits, q \in StatusQueries,
        dbOk \in BOOLEAN : ListFind(a, p, l, q, dbOk)
  \/ \E req \in inflight, dbOk \in BOOLEAN : ListCount(req, dbOk)
  \/ \E a \in Client, id \in IdParams, status \in StatusParams,
        dbOk \in BOOLEAN : Patch(a, id, status, dbOk)
  \/ \E a \in Client, id \in IdParams, dbOk \in BOOLEAN : Delete(a, id, dbOk)

Init == Start(MaxRequests, MaxRecords)

Spec == Init /\ [][Next]_vars

\* The two limiters under submissions from two addresses, window after window.
NextLimiter ==
  \/ \E a \in Addr : GeneralReject(a, "contact")
  \/ \E a \in Addr : GeneralWindowReset(a)
  \/ \E a \in Addr : ContactWindowReset(a)
  \/ \E a \in Addr : HealthBurst(a)
  \/ \E a \in Addr : ContactReject(a)
  \/ \E a \in Addr, body \in LimiterBodies : ValidatorReject(a, body)
  \/ \E a \in Addr, body \in LimiterBodies, ua \in UserAgents :
        SubmitStart(a, body, ua)
  \/ Settle

InitLimiter == Start(MaxLimiterRequests, MaxLimiterRecords)

SpecLimiter == InitLimiter /\ [][NextLimiter]_vars

\* ================================================================ claims
\* A workflow that has ended: ev.req is what it did.
Ended == ev.act = "contact" /\ ev.req.kind = "submit"
\* A POST that reached the validator: ev.req.body is its payload.
Validated == ev.req.kind = "post"

Blank(o) == o = None \/ TextLen(o[1]) = 0

\* The rejections the spec lists for the input validator.
ListedReject(body) ==
  \/ Blank(body.name) \/ Blank(body.email) \/ Blank(body.message)
  \/ TextLen(body.name[1]) > 100
  \/ TextLen(body.message[1]) > 1000
  \/ ~EmailRegexTest(Expand(body.email[1]))

\* ---------------------------------------------------------------- C1
\* C1 as stated: every POST /api/contact with a valid payload that the
\* limiters admit creates exactly one record with status unread and attempts
\* two sends, the owner's first and the submitter's second. (Read in the
\* claim's favour: the store and the mail transport do not fail.)
C1_AsStated ==
  (Ended /\ ev.req.fail \notin {"save", "owner", "user"}) =>
    /\ ev.req.ins = <<"unread">>
    /\ ev.req.sends = <<"owner", "user">>

\* What a workflow has done, at each of its positions and at its end.
C1_Workflow(r) ==
  /\ r.ins \in {<<>>, <<"unread">>}
  /\ r.sends \in {<<>>, <<"owner">>, <<"owner", "user">>}
  /\ r.pc = "save" => r.ins = <<>> /\ r.sends = <<>>
  /\ r.pc = "owner" => r.ins = <<"unread">> /\ r.sends = <<>>
  /\ r.pc = "user" => r.ins = <<"unread">> /\ r.sends = <<"owner">>

C1_Ended ==
  Ended =>
    LET r == ev.req IN
    /\ C1_Workflow(r)
    /\ (TextLen(r.doc.name) = 0 \/ TextLen(r.doc.message) = 0)
         => ev.code = 400 /\ r.ins = <<>>
    /\ r.ins = <<>> <=> r.fail \in {"schema", "save"}
    /\ r.ins = <<>> => r.sends = <<>> /\ ev.code \in {400, 500}
    /\ r.ins = <<"unread">> => r.sends # <<>>
    /\ r.sends = <<"owner">> <=> r.fail = "owner"
    /\ ev.code = 201 <=> (r.fail = "none")
    /\ ev.code = 201 => r.ins = <<"unread">> /\ r.sends = <<"owner", "user">>

C1_SaveStep ==
  ev'.act = "save" =>
    \E r \in inflight :
      /\ r.kind = "submit" /\ r.pc = "save"
      /\ r.doc \notin contacts
      /\ r.doc.status = "unread"
      /\ contacts' = contacts \cup {r.doc}

\* C1, amended: a workflow creates at most one record, with status unread,
\* and exactly one when the schema accepts the document and the save
\* succeeds; then the owner send is attempted, and the submitter send after
\* it only when the owner send succeeded. A document the schema rejects (a
\* name or message blank once trimmed) is answered 400, a failed save 500,
\* and neither creates a record nor attempts a send. Only 201 reports one
\* record and both sends.
C1_Amended ==
  /\ [](ev.act = "submitStart" => ~ListedReject(ev.req.body))
  /\ [](C1_Ended /\ \A r \in inflight : r.kind = "submit" => C1_Workflow(r))
  /\ [][C1_SaveStep /\ (contacts' # contacts /\ ev'.act \notin {"patch", "delete"}
                          => ev'.act = "save")]_vars

C1_Witness ==
  /\ Ended /\ ev.code = 201
  /\ ev.req.ins = <<"unread">> /\ ev.req.sends = <<"owner", "user">>
  /\ ev.req.doc \in contacts

\* ---------------------------------------------------------------- C2
\* C2: a POST /api/contact whose payload the validator rejects (a field
\* absent or empty, name over 100, message over 1000, email not matching)
\* is answered 400; no record is created, no workflow (so no send) starts,
\* and the stored records are unchanged.
C2_Rejected ==
  [][(Validated' /\ ListedReject(ev'.req.body))
       => /\ ev'.code = 400
          /\ contacts' = contacts
          /\ inflight' = inflight
          /\ nextId' = nextId]_vars

C2_Witness ==
  /\ Validated /\ ev.code = 400
  /\ ev.req.body = [GoodBody EXCEPT !.message = Some(Run("a", 1001))]
  /\ contacts # {}

\* ---------------------------------------------------------------- C4
\* C4: when a send fails after the record was persisted, the step leaves
\* the stored records as they are (no roll back), the workflow ends there
\* (no retry), a failed owner send means the submitter send was never
\* attempted, and the answer is 500, not 201.
C4_SendFails ==
  [][(Ended' /\ ev'.req.fail \in {"owner", "user"})
       => /\ ev'.code = 500
          /\ contacts' = contacts
          /\ ev'.req.ins = <<"unread">>
          /\ ev'.req.sends = IF ev'.req.fail = "owner" THEN <<"owner">>
                             ELSE <<"owner", "user">>
          /\ \A r \in inflight' :
               r.kind = "submit" => r.doc.id # ev'.req.doc.id]_vars

C4_Witness ==
  /\ Ended /\ ev.req.fail = "owner" /\ ev.code = 500
  /\ ev.req.doc \in contacts

\* ---------------------------------------------------------------- C5
\* C5 as stated: when the create step fails for a payload the validator
\* accepted (the storage fails or the schema rejects the document), the
\* answer is a server error, no record exists for the submission and no
\* send is attempted.
C5_AsStated ==
  (Ended /\ ev.req.fail \in {"schema", "save"})
    => /\ ev.code >= 500
       /\ ~Exists(ev.req.doc.id)
       /\ ev.req.sends = <<>>

\* C5, amended: a storage failure is answered 500 and a schema rejection
\* 400 (with the validators' messages); in both the workflow ends, no record
\* exists for the submission and no send is attempted.
C5_Amended ==
  (Ended /\ ev.req.fail \in {"schema", "save"})
    => /\ ev.code = (IF ev.req.fail = "schema" THEN 400 ELSE 500)
       /\ (ev.req.fail = "schema" <=> SchemaErrors(ev.req.doc) # {})
       /\ ~Exists(ev.req.doc.id)
       /\ ev.req.ins = <<>>
       /\ ev.req.sends = <<>>
       /\ \A r \in inflight : r.kind = "submit" => r.doc.id # ev.req.doc.id

C5_Witness ==
  /\ Ended /\ ev.req.fail = "schema" /\ ev.code = 400
  /\ contacts # {}

\* ---------------------------------------------------------------- C6
\* A PATCH /api/contacts/:id that reached its handler: ev.req is the request.
Patched == ev.req.kind = "patch"

\* The record with id `id`, its status replaced.
WithStatus(id, status) ==
  {c \in contacts : c.id # id}
    \cup {[c EXCEPT !.status = status] : c \in {d \in contacts : d.id = id}}

\* C6 as stated: a PATCH with an id that matches no record is answered 404,
\* one with a status outside {unread, read, replied} 400, both leaving every
\* record unchanged; only an existing id with a valid status changes
\* anything, and only that record's status. (Read in the claim's favour:
\* the store does not fail and the id is a well-formed ObjectId.)
C6_AsStated ==
  [][(Patched' /\ ev'.req.dbOk /\ ev'.req.id # BadId) =>
       /\ ~Exists(ev'.req.id) => ev'.code = 404 /\ contacts' = contacts
       /\ ev'.req.status \notin Statuses => ev'.code = 400 /\ contacts' = contacts
       /\ contacts' # contacts =>
            /\ Exists(ev'.req.id) /\ ev'.req.status \in Statuses
            /\ contacts' = WithStatus(ev'.req.id, ev'.req.status)]_vars

\* The answer and the effect of one PATCH.
C6_Step ==
  Patched' =>
    LET id == ev'.req.id
        status == ev'.req.status
        dbOk == ev'.req.dbOk
    IN /\ status \notin Statuses => ev'.code = 400
       /\ (status \in Statuses /\ (id = BadId \/ ~dbOk)) => ev'.code = 500
       /\ (status \in Statuses /\ id # BadId /\ dbOk /\ ~Exists(id))
            => ev'.code = 404
       /\ (status \in Statuses /\ dbOk /\ Exists(id)) => ev'.code = 200
       /\ ev'.code # 200 => contacts' = contacts
       /\ ev'.code = 200 => contacts' = WithStatus(id, status)

\* C6, amended: the status is checked first, so a status outside the enum
\* is answered 400 whatever the id; with a valid status, an id that is no
\* ObjectId is answered 500, a well-formed id that matches no record 404
\* (500 when the store fails). None of these changes a record. Only 200
\* changes anything: the id exists, the status is valid and only that
\* record's status is set.
C6_Amended == [][C6_Step]_vars

C6_Witness ==
  /\ Patched /\ ev.code = 404 /\ ev.req.status \in Statuses /\ ev.req.dbOk
  /\ contacts # {} /\ ~Exists(ev.req.id)

\* ---------------------------------------------------------------- C7
\* C7 as stated: after a successful DELETE of an id, every later update or
\* delete on it is answered 404, it never appears in a list result and no
\* later submission gets it. (Read in the claim's favour: the store does
\* not fail.)
C7_AsStated ==
  [][/\ (ev'.req.kind \in {"patch", "delete"} /\ ev'.req.id \in deleted
           /\ ev'.req.dbOk)
          => ev'.code = 404
     /\ ev'.req.kind = "list"
          => \A i \in DOMAIN ev'.req.data : ev'.req.data[i] \notin deleted
     /\ ev'.act = "submitStart"
          => \A r \in inflight' \ inflight : r.doc.id \notin deleted]_vars

\* What holds of the deleted ids, in every state and at every step.
C7_Gone ==
  /\ \A c \in contacts : c.id \notin deleted
  /\ \A r \in inflight :
       (r.kind = "submit" /\ r.pc = "save") => r.doc.id \notin deleted
  /\ \A id \in deleted : id < nextId

C7_Step ==
  /\ (ev'.req.kind = "delete" /\ ev'.req.id \in deleted)
        => /\ ev'.code = (IF ev'.req.dbOk THEN 404 ELSE 500)
           /\ contacts' = contacts
  /\ (ev'.req.kind = "patch" /\ ev'.req.id \in deleted)
        => /\ ev'.code = (IF ev'.req.status \notin Statuses THEN 400
                          ELSE IF ev'.req.dbOk THEN 404 ELSE 500)
           /\ contacts' = contacts
  /\ ev'.act = "find"
        => \A r \in inflight' \ inflight :
             \A i \in DOMAIN r.data : r.data[i] \notin deleted
  /\ ev'.act = "submitStart"
        => \A r \in inflight' \ inflight :
             r.doc.id = nextId /\ nextId' > nextId /\ r.doc.id \notin deleted

\* C7, amended: a deleted id never again refers to a stored record and is
\* never given to a later submission; a later delete, or update with a valid
\* status, on it is answered 404 (500 when the store fails), an update with
\* an invalid status 400, and none changes a record; a list whose find runs
\* after the delete does not contain it (a list whose find ran before the
\* delete still returns it).
C7_Amended == []C7_Gone /\ [][C7_Step]_vars

C7_Witness ==
  /\ ev.req.kind = "delete" /\ ev.code = 404 /\ ev.req.id \in deleted
  /\ ev.req.dbOk /\ contacts # {}

\* ---------------------------------------------------------------- C8
\* C8 as stated: a health request changes no state of the service, stored
\* records or limiter counters, and is always answered with success.
C8_AsStated ==
  [][ev'.act = "health" =>
       /\ contacts' = contacts
       /\ generalHits' = generalHits
       /\ contactHits' = contactHits
       /\ ev'.code = 200]_vars

\* C8, amended: a health request changes neither the stored records nor the
\* contact limiter's counters nor any workflow; it is counted by the general
\* limiter (the caller's counter grows, no other address's changes) and is
\* answered 200 while the caller's count stays within 100, 429 beyond.
C8_Amended ==
  [][ev'.act = "health" =>
       /\ contacts' = contacts
       /\ contactHits' = contactHits
       /\ inflight' = inflight
       /\ nextId' = nextId
       /\ \E a \in Addr :
            /\ generalHits'[a] > generalHits[a]
            /\ \A b \in Addr \ {a} : generalHits'[b] = generalHits[b]
            /\ ev'.code = IF generalHits'[a] <= 100 THEN 200 ELSE 429]_vars

C8_Witness ==
  /\ ev.act = "health" /\ ev.code = 429
  /\ \E a \in Addr : generalHits[a] = 101

\* ---------------------------------------------------------------- C9
\* A GET /api/contacts that was answered 200: ev.req is the request and
\* its result (seen: the size of the result set the page was cut from).
Listed == ev.req.kind = "list"

MatchingNow(q) ==
  IF q = None THEN contacts ELSE {c \in contacts : c.status = q[1]}

\* C9 as stated: the answer is the page of the matching records latest
\* first, with total = their number and pages = ceil(total / n), and total
\* is the number of matching records in the store state the page was read
\* from.
C9_AsStated ==
  Listed =>
    /\ ev.req.total = ev.req.seen
    /\ ev.req.pages * ev.req.limit >= ev.req.total
    /\ (ev.req.pages - 1) * ev.req.limit < ev.req.total \/ ev.req.total = 0

\* data is page p of size n of the records M, latest first.
C9_IsPage(data, M, p, n) ==
  \E B \in SUBSET M :
    LET rest == M \ B
        P == {c \in rest : \E i \in DOMAIN data : data[i] = c.id}
    IN /\ Cardinality(B) = Min((p - 1) * n, Cardinality(M))
       /\ Len(data) = Min(n, Cardinality(rest))
       /\ Cardinality(P) = Len(data)
       /\ \A i, j \in DOMAIN data :
            i < j => /\ data[i] # data[j]
                     /\ Doc(data[i]).createdAt >= Doc(data[j]).createdAt
       /\ \A b \in B, c \in P : b.createdAt >= c.createdAt
       /\ \A c \in P, d \in rest \ P : c.createdAt >= d.createdAt

C9_FindStep ==
  ev'.act = "find" =>
    \A r \in inflight' \ inflight :
      /\ r.page = (IF r.query.page = None THEN 1 ELSE r.query.page[1])
      /\ r.limit = (IF r.query.limit = None THEN 10 ELSE r.query.limit[1])
      /\ r.seen = Cardinality(MatchingNow(r.query.status))
      /\ C9_IsPage(r.data, MatchingNow(r.query.status), r.page, r.limit)

C9_CountStep ==
  Listed' =>
    /\ \E r \in inflight \ inflight' :
         /\ r.kind = "list" /\ r.query = ev'.req.query
         /\ r.data = ev'.req.data /\ r.seen = ev'.req.seen
         /\ r.page = ev'.req.page /\ r.limit = ev'.req.limit
    /\ ev'.code = 200
    /\ ev'.req.total = Cardinality(MatchingNow(ev'.req.query.status))
    /\ ev'.req.pages * ev'.req.limit >= ev'.req.total
    /\ (ev'.req.pages - 1) * ev'.req.limit < ev'.req.total \/ ev'.req.total = 0
    /\ contacts' = contacts

C9_Example ==
  /\ PageSlice([i \in 1..25 |-> i], 2, 10) = [i \in 1..10 |-> 10 + i]
  /\ PagesOf(25, 10) = 3

\* C9, amended: for page p >= 1 and size n >= 1 (defaults 1 and 10) the
\* answer's data is positions (p-1)*n+1 .. p*n of the records that match
\* when find runs, latest first; total is the number of records that match
\* when countDocuments runs, a later state of the store in which records
\* may have been created, deleted or updated; pages = ceil(total / n).
\* Page 2 of size 10 over 25 records is records 11-20, pages = 3.
C9_Amended ==
  /\ [][C9_FindStep /\ C9_CountStep]_vars
  /\ []C9_Example

C9_Witness ==
  /\ Listed /\ ev.code = 200
  /\ ev.req.page = 2 /\ ev.req.limit = 1
  /\ Len(ev.req.data) = 1 /\ ev.req.seen = 2
  /\ ev.req.total = 2 /\ ev.req.pages = 2

\* ---------------------------------------------------------------- C10
\* The statuses, and what a step may change of a record.
C10_Type ==
  /\ \A c \in contacts : c.status \in {"unread", "read", "replied"}
  /\ \A c, d \in contacts : c.id = d.id => c = d
  /\ \A c \in contacts, status \in {"unread", "read", "replied"} :
       /\ PatchCode(c.id, status, TRUE) = 200
       /\ [c EXCEPT !.status = status] \in Updated(c.id, status)

C10_Frame ==
  \A c \in contacts, d \in contacts' :
    c.id = d.id =>
      /\ d = [c EXCEPT !.status = d.status]
      /\ c.status # d.status =>
           /\ ev'.act = "patch" /\ ev'.code = 200
           /\ ev'.req.id = c.id /\ ev'.req.status = d.status

\* C10: every stored record's status is unread, read or replied; a record's
\* id, name, email, message and createdAt never change; a status changes
\* only in a PATCH answered 200 for that id, to the status it names; and
\* that PATCH is accepted for every record and every one of the statuses.
C10_Status == []C10_Type /\ [][C10_Frame]_vars

C10_Witness ==
  /\ Patched /\ ev.code = 200 /\ ev.req.status = "unread"
  /\ Cardinality(contacts) = 2
  /\ \E c, d \in contacts :
       /\ c.id = ev.req.id /\ c.status = "unread"
       /\ d.id # c.id /\ d.status = "replied"

\* ---------------------------------------------------------------- C3
\* A POST /api/contact of address a arrives in this step.
PostArrives(a) == window'[a].posts = window[a].posts + 1
\* ... and limiter lets it through to contactLimiter.
PostAdmitted(a) == window'[a].admitted = window[a].admitted + 1

\* C3 as stated: the 6th POST /api/contact of an address within one
\* 60-minute window is answered 429 whatever the payloads, at most 5 per
\* address and window reach the validator, and a rejected request creates
\* no record and sends nothing.
C3_AsStated ==
  [][\A a \in Addr :
       /\ (PostArrives(a) /\ window'[a].posts >= 6)
            => /\ ev'.code = 429
               /\ contacts' = contacts /\ inflight' = inflight
       /\ window'[a].validated <= 5]_vars

\* The answer to one POST, and what the limiter has counted.
C3_Step ==
  \A a \in Addr :
    /\ (PostArrives(a) /\ PostAdmitted(a) /\ window'[a].admitted >= 6)
         => ev'.code = 429
    /\ (PostArrives(a) /\ PostAdmitted(a) /\ window'[a].admitted <= 5)
         => /\ ev'.code # 429
            /\ window'[a].validated = window[a].validated + 1
            /\ ev'.req.kind = "post"
    /\ (PostArrives(a) /\ ~PostAdmitted(a))
         => ev'.code = 429 /\ contactHits' = contactHits
    /\ (PostArrives(a) /\ ev'.code = 429)
         => /\ contacts' = contacts /\ inflight' = inflight
            /\ nextId' = nextId
            /\ window'[a].validated = window[a].validated

C3_Counted ==
  \A a \in Addr :
    /\ window[a].validated <= 5
    /\ window[a].admitted = contactHits[a]
    /\ window[a].validated = (IF contactHits[a] <= 5 THEN contactHits[a] ELSE 5)

\* C3, amended: contactLimiter counts the POSTs that the general limiter
\* (100 per 15 minutes over all /api/ routes, applied first) lets through;
\* a POST the general limiter refuses is answered 429 without being
\* counted. Of the POSTs of an address that are let through in one
\* 60-minute window, the first five reach the validator and the 6th and
\* later are answered 429 whatever the payloads; at most 5 per address and
\* window reach the validator; a request answered 429 creates no record
\* and starts no workflow.
C3_Amended == []C3_Counted /\ [][C3_Step]_vars

C3_Witness ==
  /\ ev.act = "contact" /\ ev.code = 429
  /\ \E a \in Addr : window[a].admitted = 6 /\ window[a].posts = 6
  /\ contacts # {}

====
